---------------------------- MODULE Spec2Model ----------------------------
(***************************************************************************)
(* A model of htmlforge (src/__init__.py): HTMLElement, its escaping and   *)
(* obfuscation of text children, child removal, attributes, rendering, and *)
(* the tag catalog (Html, Body, Div, P, Img, A).                           *)
(*                                                                         *)
(* A Python str is a sequence of one-character strings.  Objects live in   *)
(* two heaps: elems (HTMLElement objects, an element's identity is its     *)
(* index) and dicts (attribute dict objects, which elements reference by   *)
(* index, so that two elements can hold the same dict object).             *)
(***************************************************************************)
EXTENDS Integers, Sequences, FiniteSets, TLC

VARIABLES
    elems,   \* the HTMLElement objects: cls, tag_name, attributes, children
    dicts,   \* the attribute dict objects: each a sequence of <<key, value>>
    last,    \* the last call: its arguments, what it raised or returned
    prev,    \* <<elems, dicts>> as they were before the last call
    calls    \* how many calls were made

vars == <<elems, dicts, last, prev, calls>>

(***************************************************************************)
(* Bounds of the model.                                                    *)
(***************************************************************************)
\* longest raw text handed to add_child in SpecEsc
MaxLen == 3
\* most calls made on one element with text children (Spec)
MaxCalls == 4
\* most calls made on a tree of elements (SpecTree)
MaxTreeCalls == 4
\* most calls made on elements and their attributes (SpecAttr)
MaxAttrCalls == 3
\* longest children list of the rendered root (SpecRender)
MaxRenderChildren == 2

(***************************************************************************)
(* Strings.                                                                *)
(***************************************************************************)
RECURSIVE Flatten(_)
\* "".join(parts)
Flatten(parts) ==
    IF parts = <<>> THEN <<>> ELSE Head(parts) \o Flatten(Tail(parts))

RECURSIVE Replace(_, _, _)
\* str.replace(old, new) for a one-character old
Replace(s, old, new) ==
    IF s = <<>> THEN <<>>
    ELSE (IF Head(s) = old THEN new ELSE <<Head(s)>>) \o Replace(Tail(s), old, new)

\* ord(char), for the characters the model's texts are made of
Ord(c) ==
    CASE c = "\"" -> 34 [] c = "#" -> 35 [] c = "&" -> 38 [] c = "'" -> 39
      [] c = "0" -> 48 [] c = "1" -> 49 [] c = "2" -> 50 [] c = "3" -> 51
      [] c = "4" -> 52 [] c = "5" -> 53 [] c = "6" -> 54 [] c = "7" -> 55
      [] c = "8" -> 56 [] c = "9" -> 57 [] c = ";" -> 59 [] c = "<" -> 60
      [] c = ">" -> 62 [] c = "a" -> 97 [] c = "b" -> 98 [] c = "g" -> 103
      [] c = "l" -> 108 [] c = "m" -> 109 [] c = "o" -> 111 [] c = "p" -> 112
      [] c = "q" -> 113 [] c = "t" -> 116 [] c = "u" -> 117 [] c = "x" -> 120

DigitChars == <<"0", "1", "2", "3", "4", "5", "6", "7", "8", "9">>

RECURSIVE Dec(_)
\* the decimal digits of n, as f"{n}" formats an int
Dec(n) ==
    IF n < 10 THEN <<DigitChars[n + 1]>>
    ELSE Dec(n \div 10) \o <<DigitChars[(n % 10) + 1]>>

\* html.escape(s): five str.replace passes, "&" first
HtmlEscape(s) ==
    LET s1 == Replace(s, "&", <<"&", "a", "m", "p", ";">>)
        s2 == Replace(s1, "<", <<"&", "l", "t", ";">>)
        s3 == Replace(s2, ">", <<"&", "g", "t", ";">>)
        s4 == Replace(s3, "\"", <<"&", "q", "u", "o", "t", ";">>)
    IN  Replace(s4, "'", <<"&", "#", "x", "2", "7", ";">>)

\* Obfuscate with the ";" that ends each reference left out
ObfuscateUnterminated(text) ==
    Flatten([i \in 1..Len(text) |-> <<"&", "#">> \o Dec(Ord(text[i]))])

\* "".join(f"&#{ord(char)};" for char in text)
Obfuscate(text) ==
    Flatten([i \in 1..Len(text) |-> <<"&", "#">> \o Dec(Ord(text[i])) \o <<";">>])

\* HTMLElement._escape_html(text, obfuscate)
EscapeHtml(text, obfuscate) ==
    IF obfuscate THEN Obfuscate(text) ELSE HtmlEscape(text)


(***************************************************************************)
(* Objects.  A child node is a str (kind "text") or an HTMLElement (kind   *)
(* "elem", ref its identity).  An argument of the constructor's children   *)
(* list may also be a (text, flag) tuple (kind "pair").                    *)
(***************************************************************************)
TextNode(t) == [kind |-> "text", text |-> t, ref |-> 0]

ElemNode(r) == [kind |-> "elem", text |-> <<>>, ref |-> r]

PairSpec(t, f) == [kind |-> "pair", text |-> t, ref |-> 0, flag |-> f]

PlainSpec(n) == [kind |-> n.kind, text |-> n.text, ref |-> n.ref, flag |-> ""]

\* the attributes argument: omitted (None), or a dict object: one the caller
\* has just built ("new", its items in insertion order) or one that an element
\* already holds ("ref")
NoAttrs == [kind |-> "none", items |-> <<>>, id |-> 0]

NewDict(items) == [kind |-> "new", items |-> items, id |-> 0]

DictRef(d) == [kind |-> "ref", items |-> <<>>, id |-> d]

\* the children argument: omitted (None), or a list
NoChildren == [given |-> FALSE, items |-> <<>>]

ChildList(items) == [given |-> TRUE, items |-> items]

Classes == {"HTMLElement", "Html", "Body", "Div", "P", "Img", "A"}

\* the tag name each catalog class passes to HTMLElement.__init__
TagOf(cls, tagName) ==
    CASE cls = "Html" -> <<"h", "t", "m", "l">>
      [] cls = "Body" -> <<"b", "o", "d", "y">>
      [] cls = "Div" -> <<"d", "i", "v">>
      [] cls = "P" -> <<"p">>
      [] cls = "Img" -> <<"i", "m", "g">>
      [] cls = "A" -> <<"a">>
      [] OTHER -> tagName

\* what the last call was, with its arguments and what it returned or raised
NoCall ==
    [op |-> "none", elem |-> 0, cls |-> "", node |-> TextNode(<<>>),
     escape |-> FALSE, obfuscate |-> FALSE, attrs |-> NoAttrs,
     children |-> NoChildren, key |-> <<>>, value |-> <<>>,
     raised |-> "", out |-> <<>>]

Init ==
    /\ elems = <<>>
    /\ dicts = <<>>
    /\ last = NoCall
    /\ prev = <<elems, dicts>>
    /\ calls = 0

(***************************************************************************)
(* HTMLElement.__init__ and the catalog constructors.                      *)
(***************************************************************************)
\* the loop body of __init__: the node one children-list entry is stored as
InitChild(child) ==
    IF child.kind = "pair"
    THEN TextNode(CASE child.flag = "escape" -> EscapeHtml(child.text, FALSE)
                    [] child.flag = "obfuscate" ->
                           EscapeHtml(EscapeHtml(child.text, FALSE), TRUE)
                    [] OTHER -> child.text)
    ELSE [kind |-> child.kind, text |-> child.text, ref |-> child.ref]

\* self.children after the loop of __init__
InitChildren(items) == [i \in 1..Len(items) |-> InitChild(items[i])]

\* the object __init__ leaves: an element of class cls holding dict number held
Element(cls, tagName, held, items) ==
    [cls |-> cls, tag_name |-> tagName, attributes |-> held,
     children |-> InitChildren(items)]

\* attributes or {}: the dict object the element holds, as <<index, heap>>
AttrsOrNew(attributes) ==
    CASE attributes.kind = "ref" /\ dicts[attributes.id] # <<>> ->
             <<attributes.id, dicts>>
      [] attributes.kind = "new" -> <<Len(dicts) + 1, Append(dicts, attributes.items)>>
      [] OTHER -> <<Len(dicts) + 1, Append(dicts, <<>>)>>

\* HTMLElement.__init__(tag_name, attributes, children)
HTMLElementInit(cls, tagName, attributes, children) ==
    LET call == [NoCall EXCEPT !.op = "init", !.cls = cls, !.attrs = attributes,
                               !.children = children]
        held == AttrsOrNew(attributes)
    IN  IF ~children.given
        THEN \* for child in None
             /\ last' = [call EXCEPT !.raised = "TypeError"]
             /\ UNCHANGED <<elems, dicts>>
        ELSE /\ elems' = Append(elems, Element(cls, tagName, held[1], children.items))
             /\ dicts' = held[2]
             /\ last' = [call EXCEPT !.elem = Len(elems) + 1]

\* Html, Body, Div, P, A: super().__init__(tag, attributes, children);
\* Img: super().__init__("img", attributes)
Construct(cls, tagName, attributes, children) ==
    HTMLElementInit(cls, TagOf(cls, tagName), attributes,
                    IF cls = "Img" THEN NoChildren ELSE children)

(***************************************************************************)
(* add_child, remove_child, set_attribute, get_attribute.                  *)
(***************************************************************************)
\* AddedNode with the text escaped again for each flag that is set
AddedNodeEscapedTwice(child, escape, obfuscate) ==
    IF child.kind = "text" /\ escape
    THEN TextNode(IF obfuscate
                  THEN EscapeHtml(EscapeHtml(EscapeHtml(child.text, FALSE), FALSE), TRUE)
                  ELSE EscapeHtml(EscapeHtml(child.text, FALSE), FALSE))
    ELSE child

\* the node add_child appends for a child that does not raise
AddedNode(child, escape, obfuscate) ==
    IF child.kind = "text" /\ escape
    THEN TextNode(IF obfuscate
                  THEN EscapeHtml(EscapeHtml(child.text, FALSE), TRUE)
                  ELSE EscapeHtml(child.text, FALSE))
    ELSE child

\* AddChild with the flags checked for an element too, and the child appended
\* before the check raises
AddChildChecksLate(e, child, escape, obfuscate) ==
    /\ elems' = [elems EXCEPT ![e].children =
                     Append(@, AddedNode(child, escape, obfuscate))]
    /\ last' = [NoCall EXCEPT !.op = "add_child", !.elem = e, !.node = child,
                              !.escape = escape, !.obfuscate = obfuscate,
                              !.raised = IF ~escape /\ obfuscate THEN "ValueError"
                                         ELSE ""]
    /\ UNCHANGED dicts

\* HTMLElement.add_child(child, escape, obfuscate)
AddChild(e, child, escape, obfuscate) ==
    LET call == [NoCall EXCEPT !.op = "add_child", !.elem = e, !.node = child,
                               !.escape = escape, !.obfuscate = obfuscate]
    IN  IF child.kind = "text" /\ ~escape /\ obfuscate
        THEN /\ last' = [call EXCEPT !.raised = "ValueError"]
             /\ UNCHANGED <<elems, dicts>>
        ELSE /\ elems' = [elems EXCEPT ![e].children =
                              Append(@, AddedNode(child, escape, obfuscate))]
             /\ last' = call
             /\ UNCHANGED dicts

\* x in list
Contains(list, x) == \E i \in 1..Len(list) : list[i] = x

\* list.remove(x) for an x the list contains: the first equal entry goes
RemoveFirst(list, x) ==
    LET i == CHOOSE j \in 1..Len(list) :
                 list[j] = x /\ \A k \in 1..(j - 1) : list[k] # x
    IN  SubSeq(list, 1, i - 1) \o SubSeq(list, i + 1, Len(list))

\* the third form remove_child looks for
ObfuscatedForm(text) == EscapeHtml(text, TRUE)

\* ChildrenAfterRemove with the argument itself as the only form looked for
ChildrenAfterRemoveRawOnly(children, element) ==
    IF Contains(children, element) THEN RemoveFirst(children, element) ELSE children

\* self.children after remove_child(element)
ChildrenAfterRemove(children, element) ==
    IF Contains(children, element) THEN RemoveFirst(children, element)
    ELSE IF element.kind = "text"
    THEN LET escaped == TextNode(EscapeHtml(element.text, FALSE))
             obfuscated == TextNode(ObfuscatedForm(element.text))
         IN  IF Contains(children, escaped) THEN RemoveFirst(children, escaped)
             ELSE IF Contains(children, obfuscated)
             THEN RemoveFirst(children, obfuscated)
             ELSE children
    ELSE children

\* HTMLElement.remove_child(element)
RemoveChild(e, element) ==
    /\ elems' = [elems EXCEPT ![e].children = ChildrenAfterRemove(@, element)]
    /\ last' = [NoCall EXCEPT !.op = "remove_child", !.elem = e, !.node = element]
    /\ UNCHANGED dicts

\* dict[key] = value: an existing key keeps its place
DictSet(d, key, value) ==
    IF \E i \in 1..Len(d) : d[i][1] = key
    THEN [i \in 1..Len(d) |-> IF d[i][1] = key THEN <<key, value>> ELSE d[i]]
    ELSE Append(d, <<key, value>>)

\* dict.get(key, "")
DictGet(d, key) ==
    IF \E i \in 1..Len(d) : d[i][1] = key
    THEN d[CHOOSE i \in 1..Len(d) : d[i][1] = key][2]
    ELSE <<>>

\* HTMLElement.set_attribute(key, value)
SetAttribute(e, key, value) ==
    /\ dicts' = [dicts EXCEPT ![elems[e].attributes] = DictSet(@, key, value)]
    /\ last' = [NoCall EXCEPT !.op = "set_attribute", !.elem = e, !.key = key,
                              !.value = value]
    /\ UNCHANGED elems

\* HTMLElement.get_attribute(key)
GetAttribute(e, key) ==
    /\ last' = [NoCall EXCEPT !.op = "get_attribute", !.elem = e, !.key = key,
                              !.out = DictGet(dicts[elems[e].attributes], key)]
    /\ UNCHANGED <<elems, dicts>>

(***************************************************************************)
(* __str__.                                                                *)
(***************************************************************************)
RECURSIVE Join(_, _)
\* sep.join(parts)
Join(sep, parts) ==
    IF parts = <<>> THEN <<>>
    ELSE IF Len(parts) = 1 THEN parts[1]
    ELSE parts[1] \o sep \o Join(sep, Tail(parts))

\* AttributesStr with the values as they are, not escaped
AttributesStrUnescaped(d) ==
    Flatten([i \in 1..Len(d) |->
                <<" ">> \o d[i][1] \o <<"=", "\"">> \o d[i][2] \o <<"\"">>])

\* "".join(f' {key}="{self._escape_html(value)}"' for key, value in items)
AttributesStr(d) ==
    Flatten([i \in 1..Len(d) |->
                <<" ">> \o d[i][1] \o <<"=", "\"">> \o EscapeHtml(d[i][2], FALSE)
                        \o <<"\"">>])

Doctype == <<"<", "!", "D", "O", "C", "T", "Y", "P", "E", " ", "h", "t", "m", "l", ">">>

RECURSIVE Str(_)
\* HTMLElement.__str__(self), for the element itself whatever its class
BaseStr(e) ==
    LET el == elems[e]
        children_str ==
            Join(<<" ">>, [i \in 1..Len(el.children) |->
                              IF el.children[i].kind = "text"
                              THEN el.children[i].text
                              ELSE Str(el.children[i].ref)])
    IN  <<"<">> \o el.tag_name \o AttributesStr(dicts[el.attributes]) \o <<">">>
            \o children_str \o <<"<", "/">> \o el.tag_name \o <<">">>

\* str(element): Html.__str__ for an Html, HTMLElement.__str__ otherwise
Str(e) ==
    IF elems[e].cls = "Html" THEN Doctype \o <<"\n">> \o BaseStr(e) ELSE BaseStr(e)

\* the elements among e's children
ChildRefs(e) ==
    {elems[e].children[i].ref :
        i \in {j \in 1..Len(elems[e].children) : elems[e].children[j].kind = "elem"}}

RECURSIVE Below(_, _)
\* the elements reached from the set s in at most n more steps down
Below(s, n) ==
    IF n = 0 THEN s
    ELSE Below(s \cup UNION {ChildRefs(x) : x \in s}, n - 1)

\* e is not below itself: str(e) ends
Acyclic(e) ==
    \A x \in Below({e}, Len(elems)) : x \notin Below(ChildRefs(x), Len(elems))

\* str(e): the string, or the RecursionError of a tree that holds a cycle
Render(e) ==
    /\ last' = IF Acyclic(e)
               THEN [NoCall EXCEPT !.op = "str", !.elem = e, !.out = Str(e)]
               ELSE [NoCall EXCEPT !.op = "str", !.elem = e,
                                   !.raised = "RecursionError"]
    /\ UNCHANGED <<elems, dicts>>

(***************************************************************************)
(* Spec: the calls a program makes on one Div whose children are texts.    *)
(***************************************************************************)
Amp == <<"&">>

AmpEntity == <<"&", "a", "m", "p", ";">>

\* the texts handed to add_child and remove_child
Texts == {<<"a">>, <<"<">>, Amp, AmpEntity}

TextNodes == {TextNode(t) : t \in Texts}

\* one more call, of at most max
Call(max) == calls < max /\ calls' = calls + 1 /\ prev' = <<elems, dicts>>

\* the children lists handed to the Div's constructor
TextChildLists ==
    {<<>>, <<PlainSpec(TextNode(Amp))>>,
     <<PairSpec(Amp, "escape"), PairSpec(Amp, "obfuscate")>>}
        \cup {<<PairSpec(Amp, f)>> : f \in {"escape", "obfuscate", "raw"}}

Next ==
    \/ \E ch \in TextChildLists :
          /\ elems = <<>>
          /\ Call(MaxCalls)
          /\ Construct("Div", <<>>, NoAttrs, ChildList(ch))
    \/ \E child \in TextNodes, escape \in BOOLEAN, obfuscate \in BOOLEAN :
          /\ elems # <<>>
          /\ Call(MaxCalls)
          /\ AddChild(1, child, escape, obfuscate)
    \/ \E element \in TextNodes :
          /\ elems # <<>>
          /\ Call(MaxCalls)
          /\ RemoveChild(1, element)
    \/ /\ elems # <<>>
       /\ Call(MaxCalls)
       /\ SetAttribute(1, <<"a">>, Amp)
    \/ /\ elems # <<>>
       /\ Call(MaxCalls)
       /\ Render(1)

Spec == Init /\ [][Next]_vars

(***************************************************************************)
(* Properties of Spec.                                                     *)
(***************************************************************************)
\* the children of the element of the last call, before and after it
Before == prev[1][last.elem].children

After == elems[last.elem].children

Removed == last.op = "remove_child" /\ last.node.kind = "text"

EscapedNode == TextNode(HtmlEscape(last.node.text))

ObfuscatedNode == TextNode(Obfuscate(HtmlEscape(last.node.text)))

\* C2, as claimed: remove_child(s) on an element that holds the child escape(s),
\* as add_child(s, escape=True) stored it, removes that child, whatever other
\* children the element holds.
C2_AsClaimed ==
    (Removed /\ Contains(Before, EscapedNode))
        => After = RemoveFirst(Before, EscapedNode)

\* C2, amended: remove_child(s) on an element that holds the child escape(s) removes
\* the first such child, provided the element holds no child equal to the raw s
\* (or escape(s) is s itself).
C2_RemoveEscaped ==
    (/\ Removed
     /\ Contains(Before, EscapedNode)
     /\ (Contains(Before, last.node) => EscapedNode = last.node))
        => After = RemoveFirst(Before, EscapedNode)

\* a Div that held the stored "&amp;" and not the raw "&", after remove_child("&")
C2_Witness ==
    /\ Removed
    /\ last.node.text = Amp
    /\ Contains(Before, EscapedNode)
    /\ ~Contains(Before, last.node)
    /\ Len(After) < Len(Before)

\* C3: remove_child(s) on an element that holds obfuscate(escape(s)), as
\* add_child(s, escape=True, obfuscate=True) stored it, and neither s nor
\* escape(s), removes that child.
C3_RemoveObfuscated ==
    (/\ Removed
     /\ Contains(Before, ObfuscatedNode)
     /\ ~Contains(Before, last.node)
     /\ ~Contains(Before, EscapedNode))
        => After = RemoveFirst(Before, ObfuscatedNode)

\* C8: remove_child(x) on an element none of whose children is x, escape(x) or
\* obfuscate(escape(x)) raises nothing and leaves children and attributes as
\* they were, and remove_child never removes more than one child.
C8_AbsentIsNoOp ==
    Removed =>
        /\ Len(After) >= Len(Before) - 1
        /\ (/\ ~Contains(Before, last.node)
            /\ ~Contains(Before, EscapedNode)
            /\ ~Contains(Before, ObfuscatedNode))
               => (last.raised = "" /\ elems = prev[1] /\ dicts = prev[2])

\* the text a child inserted with escaping requested is to be stored as
StoredOnce(text, obfuscate) ==
    IF obfuscate THEN Obfuscate(HtmlEscape(text)) ELSE HtmlEscape(text)

\* the texts of a list of text children
TextsOf(children) == [i \in 1..Len(children) |-> children[i].text]

\* whether list a is list b with at most one entry taken out
AtMostOneRemoved(a, b) ==
    \/ a = b
    \/ \E i \in 1..Len(b) : a = SubSeq(b, 1, i - 1) \o SubSeq(b, i + 1, Len(b))

\* C10: a text child inserted with escaping requested, by the constructor or by
\* add_child, is stored as escape(s), or obfuscate(escape(s)), beside the children
\* already stored; remove_child and set_attribute rewrite no stored child; and
\* str emits the stored texts as they are and changes nothing.
C10_EscapedOnceAtInsertion ==
    /\ (last.op = "init" /\ last.raised = "") =>
           /\ Len(After) = Len(last.children.items)
           /\ \A i \in 1..Len(After) :
                  LET given == last.children.items[i]
                  IN  (given.kind = "pair" /\ given.flag \in {"escape", "obfuscate"})
                          => After[i] = TextNode(StoredOnce(given.text,
                                                            given.flag = "obfuscate"))
    /\ (last.op = "add_child" /\ last.node.kind = "text" /\ last.escape) =>
           After = Before \o <<TextNode(StoredOnce(last.node.text, last.obfuscate))>>
    /\ last.op = "remove_child" => AtMostOneRemoved(After, Before)
    /\ last.op = "set_attribute" => elems = prev[1]
    /\ (last.op = "str" /\ \A i \in 1..Len(After) : After[i].kind = "text") =>
           /\ elems = prev[1] /\ dicts = prev[2]
           /\ last.raised = ""
           /\ \E head \in {SubSeq(last.out, 1, n) : n \in 0..Len(last.out)} :
                  last.out = head \o Join(<<" ">>, TextsOf(After))
                                  \o <<"<", "/">> \o elems[last.elem].tag_name \o <<">">>

\* add_child("&", escape=True, obfuscate=True) on a Div built from
\* [("&", "escape"), ("&", "obfuscate")]
C10_Witness ==
    /\ last.op = "add_child" /\ last.escape /\ last.obfuscate
    /\ last.node.text = Amp
    /\ Len(Before) = 2
    /\ Before[1].text = AmpEntity
    /\ After[3] = Before[2]
    /\ After[3].text # Obfuscate(Amp)

(***************************************************************************)
(* SpecTree: the calls a program makes on Divs that hold one another.      *)
(***************************************************************************)
ElemNodes == {ElemNode(r) : r \in 1..Len(elems)}

TreeNodes == {TextNode(Amp)} \cup ElemNodes

NextTree ==
    \/ \E ch \in {<<>>} \cup {<<PlainSpec(n)>> : n \in ElemNodes} :
          /\ Call(MaxTreeCalls)
          /\ Construct("Div", <<>>, NoAttrs, ChildList(ch))
    \/ \E e \in 1..Len(elems), child \in TreeNodes,
          escape \in BOOLEAN, obfuscate \in BOOLEAN :
          /\ Call(MaxTreeCalls)
          /\ AddChild(e, child, escape, obfuscate)
    \/ \E e \in 1..Len(elems), element \in TreeNodes :
          /\ Call(MaxTreeCalls)
          /\ RemoveChild(e, element)
    \/ \E e \in 1..Len(elems) :
          /\ Call(MaxTreeCalls)
          /\ Render(e)

SpecTree == Init /\ [][NextTree]_vars

\* C4: add_child(t, escape=False, obfuscate=True) of a text t raises ValueError
\* and leaves every element's children and attributes as they were; with an
\* element as the child, whatever the flags, nothing is raised and that element
\* itself becomes the last child.
C4_ObfuscateNeedsEscape ==
    last.op = "add_child" =>
        /\ (last.node.kind = "text" /\ ~last.escape /\ last.obfuscate) =>
               (last.raised = "ValueError" /\ elems = prev[1] /\ dicts = prev[2])
        /\ last.node.kind = "elem" =>
               /\ last.raised = ""
               /\ After = Before \o <<ElemNode(last.node.ref)>>
               /\ \A f \in 1..Len(elems) :
                      f # last.elem => elems[f] = prev[1][f]
               /\ dicts = prev[2]

\* add_child(t, escape=False, obfuscate=True) raised on a Div that holds a text
\* and an element
C4_Witness ==
    /\ last.op = "add_child" /\ last.node.kind = "text"
    /\ ~last.escape /\ last.obfuscate
    /\ last.raised = "ValueError"
    /\ Len(After) = 2
    /\ After[1].kind = "text" /\ After[2].kind = "elem"

RECURSIVE StructEq(_, _, _, _, _)
\* elements a and b of the heap <<h, d>> have the same tag name, attributes and
\* children, compared n levels down
StructEq(h, d, a, b, n) ==
    \/ n = 0
    \/ /\ h[a].tag_name = h[b].tag_name
       /\ d[h[a].attributes] = d[h[b].attributes]
       /\ Len(h[a].children) = Len(h[b].children)
       /\ \A i \in 1..Len(h[a].children) :
              LET x == h[a].children[i]
                  y == h[b].children[i]
              IN  /\ x.kind = y.kind
                  /\ x.text = y.text
                  /\ x.kind = "elem" => StructEq(h, d, x.ref, y.ref, n - 1)

\* whether child node x is structurally equal to the argument of the last call
EqualsArgument(x) ==
    IF last.node.kind = "text" THEN x = last.node
    ELSE /\ x.kind = "elem"
         /\ StructEq(prev[1], prev[2], x.ref, last.node.ref, Len(prev[1]))

\* C9: remove_child(child) removes the first child structurally equal to the
\* argument: the earliest equal string, or the first element with the argument's
\* tag name, attributes and children, be it the same object or not.
C9_RemovesFirstStructuralMatch ==
    (/\ last.op = "remove_child"
     /\ \E i \in 1..Len(Before) : EqualsArgument(Before[i]))
        => LET i == CHOOSE j \in 1..Len(Before) :
                        /\ EqualsArgument(Before[j])
                        /\ \A k \in 1..(j - 1) : ~EqualsArgument(Before[k])
           IN  After = SubSeq(Before, 1, i - 1) \o SubSeq(Before, i + 1, Len(Before))

(***************************************************************************)
(* SpecAttr: constructing elements of every class, and their attributes.   *)
(***************************************************************************)
\* the dicts handed to a constructor as attributes: omitted, an empty one, one
\* with an item, and the dict an element already holds
AttrArgs ==
    {NoAttrs, NewDict(<<>>), NewDict(<<<<<<"a">>, Amp>>>>)}
        \cup {DictRef(elems[r].attributes) : r \in 1..Len(elems)}

NextAttr ==
    \/ \E cls \in Classes, at \in AttrArgs, ch \in {NoChildren, ChildList(<<>>)} :
          /\ Call(MaxAttrCalls)
          /\ Construct(cls, <<"b">>, at, ch)
    \/ \E e \in 1..Len(elems), key \in {<<"a">>, <<"b">>} :
          /\ Call(MaxAttrCalls)
          /\ SetAttribute(e, key, <<"<">>)
    \/ \E e \in 1..Len(elems), key \in {<<"a">>, <<"b">>} :
          /\ Call(MaxAttrCalls)
          /\ GetAttribute(e, key)
    \/ \E e \in 1..Len(elems), child \in {TextNode(Amp)} :
          /\ Call(MaxAttrCalls)
          /\ AddChild(e, child, TRUE, FALSE)
    \/ \E e \in 1..Len(elems), child \in {TextNode(Amp)} :
          /\ Call(MaxAttrCalls)
          /\ RemoveChild(e, child)
    \/ \E e \in 1..Len(elems) :
          /\ Call(MaxAttrCalls)
          /\ Render(e)

SpecAttr == Init /\ [][NextAttr]_vars

\* C1: a constructor call raises nothing, whatever the class, and with children
\* omitted the new element's children are empty, with attributes omitted its
\* attributes are empty.
C1_DefaultsConstruct ==
    last.op = "init" =>
        /\ last.raised = ""
        /\ Len(elems) = Len(prev[1]) + 1
        /\ ~last.children.given => elems[Len(elems)].children = <<>>
        /\ last.attrs.kind = "none" => dicts[elems[Len(elems)].attributes] = <<>>

\* the items of element f's attributes, in the heap <<h, d>>
ItemsOf(h, d, f) == d[h[f].attributes]

\* C5: set_attribute on one element leaves every other element's attributes as
\* they were, also when both were constructed from the same attributes argument;
\* add_child and remove_child on one leave every other element's children as
\* they were.
C5_ElementsIndependent ==
    /\ last.op = "set_attribute" =>
           \A f \in 1..Len(elems) :
               f # last.elem => ItemsOf(elems, dicts, f) = ItemsOf(prev[1], prev[2], f)
    /\ last.op \in {"add_child", "remove_child"} =>
           \A f \in 1..Len(elems) :
               f # last.elem => elems[f].children = prev[1][f].children

(***************************************************************************)
(* SpecRender: str of the elements of a tree of two elements, the first a  *)
(* child of the second, as the constructors build them.                    *)
(***************************************************************************)
\* Img is left out: its constructor raises, so no Img is ever part of a tree
TreeClasses == Classes \ {"Img"}

\* the attributes of a rendered element, in insertion order
RenderDicts ==
    {<<>>, <<<<<<"a">>, Amp>>>>, <<<<<<"b">>, <<"\"", "<">>>>, <<<<"a">>, <<"a", "'">>>>>>}

RECURSIVE ListsUpTo(_, _)
\* the lists of at most n entries of the set s
ListsUpTo(s, n) ==
    IF n = 0 THEN {<<>>}
    ELSE LET shorter == ListsUpTo(s, n - 1)
         IN  shorter \cup {Append(l, x) : l \in shorter, x \in s}

InitRender ==
    /\ \E lc \in TreeClasses, rc \in TreeClasses, la \in RenderDicts, ra \in RenderDicts,
          lch \in {<<>>, <<PlainSpec(TextNode(Amp))>>},
          rch \in ListsUpTo({PlainSpec(n) : n \in {TextNode(<<"a">>), TextNode(<<"b">>),
                                                   ElemNode(1)}},
                            MaxRenderChildren) :
          /\ elems = <<Element(lc, TagOf(lc, <<"b">>), 1, lch),
                       Element(rc, TagOf(rc, <<"b">>), 2, rch)>>
          /\ dicts = <<la, ra>>
    /\ last = NoCall
    /\ prev = <<elems, dicts>>
    /\ calls = 0

NextRender ==
    \E e \in 1..Len(elems) :
        /\ last.op = "none"
        /\ Render(e)
        /\ UNCHANGED <<prev, calls>>

SpecRender == InitRender /\ [][NextRender]_vars

RECURSIVE AttributePart(_)
\* for each attribute in insertion order: ' ' + key + '="' + escape(value) + '"'
AttributePart(d) ==
    IF d = <<>> THEN <<>>
    ELSE <<" ">> \o d[1][1] \o <<"=">> \o <<"\"">> \o HtmlEscape(d[1][2]) \o <<"\"">>
             \o AttributePart(Tail(d))

RECURSIVE Rendering(_, _)
RECURSIVE ChildrenPart(_, _, _)
\* the children's renders, a space before each but the first
ChildrenPart(children, first, doctype) ==
    IF children = <<>> THEN <<>>
    ELSE (IF first THEN <<>> ELSE <<" ">>)
             \o (IF Head(children).kind = "text" THEN Head(children).text
                 ELSE Rendering(Head(children).ref, doctype))
             \o ChildrenPart(Tail(children), FALSE, doctype)

\* the render the claim describes; with doctype, an Html's is put after
\* '<!DOCTYPE html>' and a line break
Rendering(e, doctype) ==
    (IF doctype /\ elems[e].cls = "Html" THEN Doctype \o <<"\n">> ELSE <<>>)
        \o <<"<">> \o elems[e].tag_name \o AttributePart(dicts[elems[e].attributes])
        \o <<">">> \o ChildrenPart(elems[e].children, TRUE, doctype)
        \o <<"<">> \o <<"/">> \o elems[e].tag_name \o <<">">>

\* C6, as claimed: str of an element of an acyclic tree is '<' + tag + attributes
\* + '>' + children joined by one space + '</' + tag + '>', for every element.
C6_AsClaimed ==
    (last.op = "str" /\ last.raised = "") => last.out = Rendering(last.elem, FALSE)

\* C6, amended: str of an element of an acyclic tree is that string, except that
\* the render of an Html, at the root or as a child, starts with
\* '<!DOCTYPE html>' and a line break.
C6_RenderFormat ==
    (last.op = "str" /\ last.raised = "") => last.out = Rendering(last.elem, TRUE)

\* str of a Div with two attributes whose values need escaping and the children
\* "a" and an Html
C6_Witness ==
    /\ last.op = "str" /\ last.raised = ""
    /\ elems[last.elem].cls = "Div"
    /\ Len(dicts[elems[last.elem].attributes]) = 2
    /\ Len(elems[last.elem].children) = 2
    /\ elems[last.elem].children[1] = TextNode(<<"a">>)
    /\ elems[last.elem].children[2].kind = "elem"
    /\ elems[elems[last.elem].children[2].ref].cls = "Html"

(***************************************************************************)
(* SpecEsc: add_child of each short text of printable characters to an     *)
(* empty Div, as Div(None, []) leaves it.                                  *)
(***************************************************************************)
EscAlphabet == {"a", "&", "<", ">", "\"", "'", ";"}

\* the texts of 1 to MaxLen characters
EscTexts == ListsUpTo(EscAlphabet, MaxLen) \ {<<>>}

InitEsc ==
    /\ elems = <<Element("Div", TagOf("Div", <<>>), 1, <<>>)>>
    /\ dicts = <<<<>>>>
    /\ last = NoCall
    /\ prev = <<elems, dicts>>
    /\ calls = 0

NextEsc ==
    \/ \E s \in EscTexts, escape \in BOOLEAN, obfuscate \in BOOLEAN :
          /\ elems[1].children = <<>>
          /\ Call(1)
          /\ AddChild(1, TextNode(s), escape, obfuscate)
    \/ /\ elems[1].children # <<>>
       /\ last.op # "str"
       /\ Render(1)
       /\ UNCHANGED <<prev, calls>>

SpecEsc == InitEsc /\ [][NextEsc]_vars

Digits == {DigitChars[i] : i \in 1..10}

\* the characters ord is given for
Chars == Digits \cup {"\"", "#", "&", "'", ";", "<", ">", "a", "b", "g", "l", "m", "o",
                      "p", "q", "t", "u", "x"}

\* chr(n)
Chr(n) == IF \E c \in Chars : Ord(c) = n THEN CHOOSE c \in Chars : Ord(c) = n ELSE "?"

\* the value of one decimal or hexadecimal digit
DigitVal(c) ==
    CASE c \in Digits -> Ord(c) - 48
      [] c \in {"a", "A"} -> 10 [] c \in {"b", "B"} -> 11 [] c \in {"c", "C"} -> 12
      [] c \in {"d", "D"} -> 13 [] c \in {"e", "E"} -> 14 [] c \in {"f", "F"} -> 15

HexDigits == Digits \cup {"a", "b", "c", "d", "e", "f", "A", "B", "C", "D", "E", "F"}

RECURSIVE IntOf(_, _)
\* int(digits, base)
IntOf(digits, base) ==
    IF digits = <<>> THEN 0
    ELSE IntOf(SubSeq(digits, 1, Len(digits) - 1), base) * base
             + DigitVal(digits[Len(digits)])

RECURSIVE OnlyRefs(_)
\* t is made of tokens &#<n>; alone
OnlyRefs(t) ==
    \/ t = <<>>
    \/ /\ Len(t) >= 4 /\ t[1] = "&" /\ t[2] = "#"
       /\ \E k \in 4..Len(t) :
              /\ t[k] = ";"
              /\ \A j \in 3..(k - 1) : t[j] \in Digits
              /\ OnlyRefs(SubSeq(t, k + 1, Len(t)))

RECURSIVE DecodeRefs(_)
\* the characters the tokens &#<n>; of t stand for
DecodeRefs(t) ==
    IF t = <<>> THEN <<>>
    ELSE LET k == CHOOSE j \in 4..Len(t) : t[j] = ";" /\ \A i \in 3..(j - 1) : t[i] # ";"
         IN  <<Chr(IntOf(SubSeq(t, 3, k - 1), 10))>>
                 \o DecodeRefs(SubSeq(t, k + 1, Len(t)))

RECURSIVE RunLen(_, _, _)
\* how many characters of s, from the first on and at most max, are in set
RunLen(s, set, max) ==
    IF s = <<>> \/ max = 0 \/ Head(s) \notin set THEN 0
    ELSE 1 + RunLen(Tail(s), set, max - 1)

\* the named character references, of html.entities.html5, that the model's
\* characters can spell
Html5 ==
    {<<<<"a", "m", "p", ";">>, "&">>, <<<<"a", "m", "p">>, "&">>,
     <<<<"l", "t", ";">>, "<">>, <<<<"l", "t">>, "<">>,
     <<<<"g", "t", ";">>, ">">>, <<<<"g", "t">>, ">">>,
     <<<<"q", "u", "o", "t", ";">>, "\"">>, <<<<"q", "u", "o", "t">>, "\"">>}

Html5Has(name) == \E p \in Html5 : p[1] = name

Html5Of(name) == (CHOOSE p \in Html5 : p[1] = name)[2]

\* html._replace_charref for a named reference
NamedRef(name) ==
    IF Html5Has(name) THEN <<Html5Of(name)>>
    ELSE LET known == {x \in 2..(Len(name) - 1) : Html5Has(SubSeq(name, 1, x))}
         IN  IF known = {} THEN <<"&">> \o name
             ELSE LET x == CHOOSE y \in known : \A z \in known : z <= y
                  IN  <<Html5Of(SubSeq(name, 1, x))>> \o SubSeq(name, x + 1, Len(name))

\* the character reference at the start of r, the text after an "&", as html's
\* pattern &(#[0-9]+;?|#[xX][0-9a-fA-F]+;?|[^\t\n\f <&#;]{1,32};?) matches it:
\* <<how many characters it takes, what it is replaced by>>, <<0, <<>>>> for none
CharRef(r) ==
    LET semi(n) == IF Len(r) > n /\ r[n + 1] = ";" THEN 1 ELSE 0
        dec == RunLen(Tail(r), Digits, Len(r))
        hex == RunLen(Tail(Tail(r)), HexDigits, Len(r))
        name == RunLen(r, Chars \ {"\t", "\n", "\f", " ", "<", "&", "#", ";"}, 32)
    IN  IF r = <<>> THEN <<0, <<>>>>
        ELSE IF r[1] = "#" /\ dec > 0
        THEN <<1 + dec + semi(1 + dec), <<Chr(IntOf(SubSeq(r, 2, 1 + dec), 10))>>>>
        ELSE IF r[1] = "#" /\ Len(r) > 1 /\ r[2] \in {"x", "X"} /\ hex > 0
        THEN <<2 + hex + semi(2 + hex), <<Chr(IntOf(SubSeq(r, 3, 2 + hex), 16))>>>>
        ELSE IF name > 0
        THEN <<name + semi(name), NamedRef(SubSeq(r, 1, name + semi(name)))>>
        ELSE <<0, <<>>>>

RECURSIVE Unescape(_)
\* html.unescape(s)
Unescape(s) ==
    IF s = <<>> THEN <<>>
    ELSE IF Head(s) # "&" THEN <<Head(s)>> \o Unescape(Tail(s))
    ELSE LET ref == CharRef(Tail(s))
         IN  IF ref[1] = 0 THEN <<"&">> \o Unescape(Tail(s))
             ELSE ref[2] \o Unescape(SubSeq(s, ref[1] + 2, Len(s)))

\* how many tokens &#<n>; t is made of
RefCount(t) == Cardinality({i \in 1..Len(t) : t[i] = ";"})

\* C7: the text add_child(s, escape=True, obfuscate=True) stores is made of
\* tokens &#<n>; alone, one for each character of escape(s), and decoding them
\* and then unescaping gives s.
C7_ObfuscationRoundTrip ==
    (last.op = "add_child" /\ last.escape /\ last.obfuscate) =>
        LET stored == After[Len(After)].text
        IN  /\ OnlyRefs(stored)
            /\ RefCount(stored) = Len(HtmlEscape(last.node.text))
            /\ Unescape(DecodeRefs(stored)) = last.node.text

\* the text <&' went through add_child with escape and obfuscate
C7_Witness ==
    /\ last.op = "add_child" /\ last.escape /\ last.obfuscate
    /\ last.node.text = <<"<", "&", "'">>
    /\ Len(After) = 1
    /\ Len(After[1].text) > 3

=============================================================================
